---- MODULE Spec2Model ----
(***************************************************************************)
(* Model of the Kanban board service (apps/api/src/services/               *)
(* board.service.ts) over its Prisma/SQLite storage (prisma/schema.prisma).*)
(*                                                                         *)
(* Storage is three relations (boards, columns, cards) with primary keys   *)
(* and foreign keys.  BoardService.createBoard is a sequence of four       *)
(* awaited inserts, so it is modelled as one step per storage call and     *)
(* several calls may be in flight.  getBoardById is one awaited query and  *)
(* updateBoard has no await at all, so each is a single step.  Cards reach *)
(* storage through prisma.card.create, as the test utilities do.           *)
(*                                                                         *)
(* Around the service stand the HTTP routes (apps/api/src/routes/boards)   *)
(* in an app with or without @fastify/rate-limit, and in the browser the   *)
(* Zustand store of the board (apps/web/src/store/board.store.ts).         *)
(***************************************************************************)
EXTENDS Integers, Sequences, FiniteSets, TLC

\* ---------------------------------------------------------------- bounds
\* Largest value of the storage clock (DEFAULT CURRENT_TIMESTAMP).
MaxClock == 1
\* Largest order value of a directly inserted card.
MaxOrder == 1

\* Largest number of API calls the client store starts.
MaxCalls == 2
\* Largest number of cards addCard lets the board of the client store
\* reach.
MaxCards == 2

\* ------------------------------------------------------------ input sets
\* Values nanoid() may return for a board, for a column and (through the
\* schema default or the caller) for a card.
BoardIdSeq == <<"b1", "b2">>
ColIdSeq == <<"c1", "c2", "c3", "c4">>
BoardIds == {BoardIdSeq[i] : i \in DOMAIN BoardIdSeq}
ColIds == {ColIdSeq[i] : i \in DOMAIN ColIdSeq}
CardIds == {"k1", "k2"}

\* nanoid(): an id that is already in use, or an unused one.  Ids are opaque
\* tokens, so of the unused ones the first of the sequence stands for all.
Nanoid(ids, used) ==
    used \cup { ids[i] : i \in { j \in DOMAIN ids :
                    /\ ids[j] \notin used
                    /\ \A h \in 1..(j - 1) : ids[h] \in used } }

\* data.title of createBoard: omitted, empty, or a non-empty string.
NoTitle == "<undefined>"
CreateTitles == {NoTitle, "", "X"}

DefaultTitle == "My Kanban Board"

\* Arguments of prisma.card.create.
Contents == {"t"}
Orders == 0..MaxOrder

\* Arguments of updateBoard: BoardUpdateData with at most one card per
\* column and no column id twice.
PayloadTitles == {"Y"}
PayloadColIds == {"c1", "c2"}
PayloadColTitles == {"New"}
PayloadCardIds == {"k1"}
PayloadOrders == {0, 1}
PayloadCards ==
    {<<>>} \cup { <<[id |-> i, content |-> c, order |-> 0]>> :
                    i \in PayloadCardIds, c \in Contents }
PayloadColumn ==
    [id : PayloadColIds, title : PayloadColTitles, order : PayloadOrders,
     cards : PayloadCards]
PayloadColumns ==
    {<<>>} \cup { <<c>> : c \in PayloadColumn }
           \cup { <<p[1], p[2]>> :
                    p \in {q \in PayloadColumn \X PayloadColumn :
                             q[1].id /= q[2].id} }
Payloads == [title : PayloadTitles, columns : PayloadColumns]
\* updateBoard(id, { title, columns: [] })
TitlePayloads == [title : PayloadTitles, columns : {<<>>}]
\* Column that direct card inserts name as the owner.
CardColIds == {"c1"}

\* A title of 101 characters, and the titles createBoard is given where the
\* length of the title matters.
TenChars == "aaaaaaaaaa"
LongTitle ==
    TenChars \o TenChars \o TenChars \o TenChars \o TenChars \o TenChars
        \o TenChars \o TenChars \o TenChars \o TenChars \o "a"
LongCreateTitles == {NoTitle, LongTitle}

\* BoardUpdateData whose fields are typed correctly but out of range: an
\* empty board title, an empty column title, a negative column order, an
\* empty card content.
OneColumn(title, order, cards) ==
    <<[id |-> "c1", title |-> title, order |-> order, cards |-> cards]>>
InvalidPayloads ==
    { [title |-> "", columns |-> <<>>],
      [title |-> "Y", columns |-> OneColumn("", 0, <<>>)],
      [title |-> "Y", columns |-> OneColumn("New", -1, <<>>)],
      [title |-> "Y", columns |->
          OneColumn("New", 0, <<[id |-> "k1", content |-> "", order |-> 0]>>)] }

\* ------------------------------------------------------------- variables
VARIABLES
    boards,     \* rows of table boards:  [id, title, createdAt]
    columns,    \* rows of table columns: [id, title, order, boardId]
    cards,      \* rows of table cards:   [id, content, order, columnId]
    now,        \* the storage clock
    calls,      \* createBoard calls in flight: [board, data, k]
    returned,   \* values returned so far by createBoard, with the request
    last,       \* the service call (or storage step) executed last
    limiter,    \* the rate limiter of the app that serves the routes
    state,      \* the state of the client store: [board, loading, error]
    pending     \* the client store's API calls, in the sequence started

vars == <<boards, columns, cards, now, calls, returned, last,
          limiter, state, pending>>
store == <<boards, columns, cards>>
\* What lies outside the service: the HTTP app and the client store.
web == <<limiter, state, pending>>


\* ------------------------------------------------------- pure operators
\* const title = data.title ?? 'My Kanban Board'
TitleOrDefault_Nullish(t) == IF t = NoTitle THEN DefaultTitle ELSE t

\* const title = data.title || 'My Kanban Board'
TitleOrDefault(t) == IF t = NoTitle \/ t = "" THEN DefaultTitle ELSE t

\* defaultColumns with the orders of the last two columns exchanged.
defaultColumns_Swapped ==
    << [title |-> "Todo", order |-> 0],
       [title |-> "In Progress", order |-> 2],
       [title |-> "Done", order |-> 1] >>

\* const defaultColumns = [...]
defaultColumns ==
    << [title |-> "Todo", order |-> 0],
       [title |-> "In Progress", order |-> 1],
       [title |-> "Done", order |-> 2] >>

\* The value getBoardById returns when findUnique finds no board.
Null == [null |-> TRUE]

BoardRow(id) == CHOOSE b \in boards : b.id = id
HasBoard(id) == \E b \in boards : b.id = id
HasColumn(id) == \E c \in columns : c.id = id
HasCard(id) == \E k \in cards : k.id = id
\* include: { columns } without the filter on the owning board.
ColumnsOf_All(bid) == columns
ColumnsOf(bid) == {c \in columns : c.boardId = bid}
CardsOf(cid) == {k \in cards : k.columnId = cid}

\* orderBy: { order: 'desc' }: the rows of S with the order values never
\* increasing.
RECURSIVE OrderByAsc_Desc(_)
OrderByAsc_Desc(S) ==
    IF S = {} THEN {<<>>}
    ELSE UNION { { <<m>> \o t : t \in OrderByAsc_Desc(S \ {m}) } :
                 m \in {x \in S : \A y \in S : x.order >= y.order} }

\* orderBy: { order: 'asc' }: every enumeration of the rows S in which the
\* order values never decrease.  Rows with equal order may come either way
\* round (SQL leaves the sequence of ties open).
RECURSIVE OrderByAsc(_)
OrderByAsc(S) ==
    IF S = {} THEN {<<>>}
    ELSE UNION { { <<m>> \o t : t \in OrderByAsc(S \ {m}) } :
                 m \in {x \in S : \A y \in S : x.order <= y.order} }

\* card => ({ id, content, order })
CardView(k) == [id |-> k.id, content |-> k.content, order |-> k.order]

\* column.cards.map(...) over the cards selected by include: { cards }
CardLists(cid) ==
    { [i \in 1..Len(f) |-> CardView(f[i])] : f \in OrderByAsc(CardsOf(cid)) }

\* column => ({ id, title, order, cards })
ColumnViews(c) ==
    { [id |-> c.id, title |-> c.title, order |-> c.order, cards |-> cs] :
        cs \in CardLists(c.id) }

\* board.columns.map(...) over the column rows f in the sequence selected.
RECURSIVE MapColumns(_)
MapColumns(f) ==
    IF f = <<>> THEN {<<>>}
    ELSE { <<v>> \o rest : v \in ColumnViews(Head(f)),
                           rest \in MapColumns(Tail(f)) }

\* The columns selected by include: { columns }, mapped.
ColumnLists(bid) ==
    UNION { MapColumns(f) : f \in OrderByAsc(ColumnsOf(bid)) }

\* getBoardById answering an empty board where no board is stored.
Trees_NoNullCheck(id) ==
    IF ~HasBoard(id)
    THEN {[id |-> id, title |-> "", createdAt |-> 0, columns |-> <<>>]}
    ELSE { [id |-> BoardRow(id).id, title |-> BoardRow(id).title,
            createdAt |-> BoardRow(id).createdAt, columns |-> cl] :
            cl \in ColumnLists(id) }

\* The values getBoardById(id) may return in the current storage state.
Trees(id) ==
    IF ~HasBoard(id) THEN {Null}
    ELSE { [id |-> BoardRow(id).id, title |-> BoardRow(id).title,
            createdAt |-> BoardRow(id).createdAt, columns |-> cl] :
            cl \in ColumnLists(id) }


\* ------------------------------------------------------------- call log
NoData == [title |-> "", columns |-> <<>>]
NoValue == [none |-> TRUE]
NotImplemented == "Not implemented yet - will be driven by tests"
UniqueViolation == "Unique constraint failed"
ForeignKeyViolation == "Foreign key constraint failed"

\* A completed service call: what was called with which arguments and how
\* it came back.  streak is 2 when the same updateBoard call directly
\* preceded it.
Entry(op, id, data, status, value, error) ==
    [op |-> op, id |-> id, data |-> data, status |-> status,
     value |-> value, error |-> error,
     streak |-> IF op = "updateBoard" /\ last.op = "updateBoard"
                   /\ last.id = id /\ last.data = data
                THEN 2 ELSE 1]

\* No service call has completed since the last storage step.
Pending ==
    [op |-> "none", id |-> "", data |-> NoData, status |-> "pending",
     value |-> NoValue, error |-> "", streak |-> 0]

\* An app on which @fastify/rate-limit is not registered.
NoLimiter == [registered |-> FALSE, count |-> 0, limited |-> FALSE]

\* error: null
NoError == "<null>"

\* board: null, loading: false, error: null
InitialState == [board |-> Null, loading |-> FALSE, error |-> NoError]

Init ==
    /\ limiter = NoLimiter
    /\ state = InitialState
    /\ pending = <<>>
    /\ boards = {}
    /\ columns = {}
    /\ cards = {}
    /\ now = 0
    /\ calls = {}
    /\ returned = {}
    /\ last = Pending

\* --------------------------------------------------------------- actions
\* Time passes between storage calls.
Tick ==
    /\ now < MaxClock
    /\ now' = now + 1
    /\ UNCHANGED <<boards, columns, cards, calls, returned, last, web>>

\* createBoard inserting the board row although a row with its id is stored
\* (a boards table without its primary key).
CreateBoardInsert_NoPrimaryKey(data, boardId) ==
    LET board == [id |-> boardId, title |-> TitleOrDefault(data),
                  createdAt |-> now]
    IN  /\ boards' = boards \cup {board}
        /\ calls' = calls \cup {[board |-> board, data |-> data, k |-> 0]}
        /\ last' = Pending
        /\ UNCHANGED <<columns, cards, now, returned, web>>

\* createBoard up to its first await: nanoid(), the title default and
\* prisma.board.create.  A board id already stored violates the primary key
\* and the call rejects.
InsertBoardRow(data, boardId) ==
    LET board == [id |-> boardId, title |-> TitleOrDefault(data),
                  createdAt |-> now]
    IN  IF HasBoard(boardId)
        THEN /\ last' = Entry("createBoard", boardId, NoData, "threw",
                              NoValue, UniqueViolation)
             /\ UNCHANGED <<boards, columns, cards, now, calls, returned>>
        ELSE /\ boards' = boards \cup {board}
             /\ calls' = calls \cup {[board |-> board, data |-> data, k |-> 0]}
             /\ last' = Pending
             /\ UNCHANGED <<columns, cards, now, returned>>

\* createBoard called on the service directly.
CreateBoardInsert(data, boardId) ==
    InsertBoardRow(data, boardId) /\ UNCHANGED web

\* The loop over defaultColumns writing with prisma.column.upsert: a column
\* stored under the new id is overwritten and handed to the new board.
CreateBoardColumn_Upsert(c, columnId) ==
    /\ c \in calls
    /\ c.k < Len(defaultColumns)
    /\ columns' = {col \in columns : col.id /= columnId} \cup
          {[id |-> columnId, title |-> defaultColumns[c.k + 1].title,
            order |-> defaultColumns[c.k + 1].order, boardId |-> c.board.id]}
    /\ calls' = (calls \ {c}) \cup {[c EXCEPT !.k = c.k + 1]}
    /\ last' = Pending
    /\ UNCHANGED <<boards, cards, now, returned, web>>

\* One round of the loop over defaultColumns: prisma.column.create with a
\* fresh nanoid().  A column id already stored, or a board row that is no
\* longer stored, rejects the whole call, and what was inserted before stays.
CreateBoardColumn(c, columnId) ==
    /\ c \in calls
    /\ c.k < Len(defaultColumns)
    /\ IF HasColumn(columnId)
       THEN /\ calls' = calls \ {c}
            /\ last' = Entry("createBoard", c.board.id, NoData, "threw",
                             NoValue, UniqueViolation)
            /\ UNCHANGED <<boards, columns, cards, now, returned, web>>
       ELSE IF ~HasBoard(c.board.id)
       THEN /\ calls' = calls \ {c}
            /\ last' = Entry("createBoard", c.board.id, NoData, "threw",
                             NoValue, ForeignKeyViolation)
            /\ UNCHANGED <<boards, columns, cards, now, returned, web>>
       ELSE /\ columns' = columns \cup
                  {[id |-> columnId, title |-> defaultColumns[c.k + 1].title,
                    order |-> defaultColumns[c.k + 1].order,
                    boardId |-> c.board.id]}
            /\ calls' = (calls \ {c}) \cup {[c EXCEPT !.k = c.k + 1]}
            /\ last' = Pending
            /\ UNCHANGED <<boards, cards, now, returned, web>>

\* return { id: board.id, title: board.title, createdAt: board.createdAt }
CreateBoardReturn(c) ==
    /\ c \in calls
    /\ c.k = Len(defaultColumns)
    /\ calls' = calls \ {c}
    /\ returned' = returned \cup {[value |-> c.board, data |-> c.data]}
    /\ last' = Entry("createBoard", c.board.id, NoData, "returned", c.board, "")
    /\ UNCHANGED <<boards, columns, cards, now, web>>

\* getBoardById: one findUnique with its includes, then the mapping.
GetBoardById(id) ==
    /\ \E t \in Trees(id) :
          last' = Entry("getBoardById", id, NoData, "returned", t, "")
    /\ UNCHANGED <<boards, columns, cards, now, calls, returned, web>>

\* updateBoard overwriting the board title before it throws.
UpdateBoard_PartialWrite(id, data) ==
    /\ boards' = {IF b.id = id THEN [b EXCEPT !.title = data.title] ELSE b :
                    b \in boards}
    /\ last' = Entry("updateBoard", id, data, "threw", NoValue, NotImplemented)
    /\ UNCHANGED <<columns, cards, now, calls, returned, web>>

\* updateBoard shifting the order of the board's columns on every call
\* before it throws.
UpdateBoard_OrderDrift(id, data) ==
    /\ columns' = {IF c.boardId = id
                     THEN [c EXCEPT !.order = (c.order + 1) % 4] ELSE c :
                     c \in columns}
    /\ last' = Entry("updateBoard", id, data, "threw", NoValue, NotImplemented)
    /\ UNCHANGED <<boards, cards, now, calls, returned, web>>

\* updateBoard stamping the board row with the current time before it
\* throws.
UpdateBoard_TouchCreatedAt(id, data) ==
    /\ boards' = {IF b.id = id THEN [b EXCEPT !.createdAt = now] ELSE b :
                    b \in boards}
    /\ last' = Entry("updateBoard", id, data, "threw", NoValue, NotImplemented)
    /\ UNCHANGED <<columns, cards, now, calls, returned, web>>

\* updateBoard deleting the columns of the board, the first write of a
\* replace, before it throws.
UpdateBoard_DeleteFirst(id, data) ==
    /\ columns' = {c \in columns : c.boardId /= id}
    /\ cards' = {k \in cards :
                   \E c \in columns : c.id = k.columnId /\ c.boardId /= id}
    /\ last' = Entry("updateBoard", id, data, "threw", NoValue, NotImplemented)
    /\ UNCHANGED <<boards, now, calls, returned, web>>

\* updateBoard: throws before it touches storage.
UpdateBoard(id, data) ==
    /\ last' = Entry("updateBoard", id, data, "threw", NoValue, NotImplemented)
    /\ UNCHANGED <<boards, columns, cards, now, calls, returned, web>>

\* prisma.card.create({ data: { id?, content, order, columnId } }): the id
\* is the caller's or the schema's nanoid() default; primary key and
\* foreign key are enforced by the table.
CreateCard(id, content, order, columnId) ==
    IF HasCard(id)
    THEN /\ last' = Pending
         /\ UNCHANGED <<boards, columns, cards, now, calls, returned, web>>
    ELSE IF ~HasColumn(columnId)
    THEN /\ last' = Pending
         /\ UNCHANGED <<boards, columns, cards, now, calls, returned, web>>
    ELSE /\ cards' = cards \cup {[id |-> id, content |-> content,
                                  order |-> order, columnId |-> columnId]}
         /\ last' = Pending
         /\ UNCHANGED <<boards, columns, now, calls, returned, web>>

\* { count } of a deleteMany together with the number of rows that went
\* with it through ON DELETE CASCADE.
BatchPayload(count, cascaded) == [count |-> count, cascaded |-> cascaded]

\* prisma.card.deleteMany()
DeleteManyCards ==
    /\ cards' = {}
    /\ last' = Entry("card.deleteMany", "", NoData, "returned",
                     BatchPayload(Cardinality(cards), 0), "")
    /\ UNCHANGED <<boards, columns, now, calls, returned, web>>

\* prisma.column.deleteMany(): the cards of the deleted columns go with them
\* (cards_columnId_fkey ON DELETE CASCADE).
DeleteManyColumns ==
    /\ columns' = {}
    /\ cards' = {k \in cards : ~HasColumn(k.columnId)}
    /\ last' = Entry("column.deleteMany", "", NoData, "returned",
                     BatchPayload(Cardinality(columns),
                       Cardinality({k \in cards : HasColumn(k.columnId)})), "")
    /\ UNCHANGED <<boards, now, calls, returned, web>>

\* prisma.board.deleteMany() with the foreign keys not enforced: the rows
\* below the boards stay.
DeleteManyBoards_NoCascade ==
    /\ boards' = {}
    /\ last' = Entry("board.deleteMany", "", NoData, "returned",
                     BatchPayload(Cardinality(boards), 0), "")
    /\ UNCHANGED <<columns, cards, now, calls, returned, web>>

\* prisma.board.deleteMany(): the columns of the deleted boards go with them
\* (columns_boardId_fkey ON DELETE CASCADE) and with those their cards.
DeleteManyBoards ==
    LET gone == {c \in columns : HasBoard(c.boardId)}
        goneCards == {k \in cards : \E c \in gone : c.id = k.columnId}
    IN  /\ boards' = {}
        /\ columns' = columns \ gone
        /\ cards' = cards \ goneCards
        /\ last' = Entry("board.deleteMany", "", NoData, "returned",
                         BatchPayload(Cardinality(boards),
                           Cardinality(gone) + Cardinality(goneCards)), "")
        /\ UNCHANGED <<now, calls, returned, web>>

\* ------------------------------------------------------------ HTTP layer
\* max: 100 of @fastify/rate-limit.
RateLimitMax == 100

\* The app of apps/api/src/index.ts, on which @fastify/rate-limit is
\* registered, before its first request.
FreshLimiter == [registered |-> TRUE, count |-> 0, limited |-> FALSE]

\* A request body whose title is not a string ({ title: 123 }).
NonString == "<number>"
PostTitles == {NoTitle, "", NonString}

\* A request body without the structure of a board.
BadBody == [invalidField |-> "test"]
PutBodies == {BadBody, [title |-> "Y", columns |-> <<>>]}

\* A response sent without a result of the service behind it, to a request
\* with the body data.
Reply(op, id, data, code, error) ==
    [op |-> op, id |-> id, data |-> data, status |-> "replied",
     value |-> NoValue, error |-> error, streak |-> 0, code |-> code]

\* The status code with which the routes answer the outcome e: their own
\* replies, and reply.status(201) / reply.send / 404 / 500 around the calls
\* of createBoard (POST /api/boards) and getBoardById (GET /api/boards/:id).
StatusCode(e) ==
    IF e.status = "replied" THEN e.code
    ELSE IF e.status = "threw" THEN 500
    ELSE IF e.op = "createBoard" THEN 201
    ELSE IF e.value = Null THEN 404
    ELSE 200

\* The request is one more within the time window of the limiter.  The
\* count kept here is that of the requests to POST /api/boards.
Counted == [limiter EXCEPT !.count = limiter.count + 1]

\* @fastify/rate-limit answers the request itself: 429, no handler runs.
TooMany(op, id) ==
    /\ limiter.registered
    /\ limiter.count + 1 > RateLimitMax
    /\ limiter' = [Counted EXCEPT !.limited = TRUE]
    /\ last' = Reply(op, id, NoData, 429, "Rate limit exceeded")
    /\ UNCHANGED <<boards, columns, cards, now, calls, returned, state, pending>>

\* POST /api/boards up to the first await of createBoard: the body is
\* parsed with CreateBoardSchema, an empty title is left out of the data.
PostBoards(title, boardId) ==
    /\ limiter.count <= RateLimitMax
    /\ \/ TooMany("POST /api/boards", "")
       \/ /\ ~(limiter.registered /\ limiter.count + 1 > RateLimitMax)
          /\ limiter' = Counted
          /\ UNCHANGED <<state, pending>>
          /\ IF title = NonString
             THEN /\ last' = Reply("POST /api/boards", "",
                                   [title |-> title], 400,
                                   "Invalid request data")
                  /\ UNCHANGED <<boards, columns, cards, now, calls, returned>>
             ELSE InsertBoardRow(IF title = "" THEN NoTitle ELSE title,
                                 boardId)

\* PUT /api/boards/:id: boardRoutes registers no such route, and the app
\* answers a request without a route with 404.
PutBoard(id, body) ==
    /\ last' = Reply("PUT /api/boards/:id", id, body, 404, "Route not found")
    /\ UNCHANGED <<boards, columns, cards, now, calls, returned, web>>

\* timeWindow: '1 minute' has passed since the first request counted.
WindowReset ==
    /\ limiter.count > 0
    /\ limiter' = [limiter EXCEPT !.count = 0, !.limited = FALSE]
    /\ last' = Pending
    /\ UNCHANGED <<boards, columns, cards, now, calls, returned, state, pending>>

\* ---------------------------------------------------------- client store
\* Boards the API client hands to the store (ApiResponse<Board>.data): two
\* columns, the first with one or two cards at orders 0 and 1.
StoreCard(id, order) == [id |-> id, content |-> "t", order |-> order]
StoreCardLists ==
    { <<StoreCard("k1", 0)>>, <<StoreCard("k1", 0), StoreCard("k2", 1)>> }
StoreBoards ==
    { [id |-> b, title |-> DefaultTitle, createdAt |-> 0,
       columns |-> << [id |-> "c1", title |-> "Todo", order |-> 0,
                       cards |-> cs],
                      [id |-> "c2", title |-> "Done", order |-> 1,
                       cards |-> <<>>] >>] :
        b \in BoardIds, cs \in StoreCardLists }

\* Arguments of the store's card actions.
StoreCardIds == {"k1", "k2"}
StoreColIds == {"c1", "c2"}
NewCardIds == {"card-1"}
NewContents == {"New card"}
EditContents == {"u"}

\* ApiResponse<Board> of apiClient.getBoard / updateBoard for a board id:
\* { data } after a response that is ok, { error } otherwise.
HttpError == "HTTP 404: Not Found"
ApiResults(boardId) ==
    { [data |-> b, error |-> NoError] : b \in {x \in StoreBoards : x.id = boardId} }
        \cup {[data |-> Null, error |-> HttpError]}

\* array.filter(card => card.id !== cardId)
WithoutCard(cs, cardId) ==
    LET Keep(k) == k.id /= cardId IN SelectSeq(cs, Keep)

\* array.splice(start, 0, item) on a copy of cs, for start >= 0.
Splice(cs, start, item) ==
    LET p == IF start > Len(cs) THEN Len(cs) ELSE start
    IN  SubSeq(cs, 1, p) \o <<item>> \o SubSeq(cs, p + 1, Len(cs))

\* array.find(x => x.id === id): the first such element, or none.
Found(f, id) == {f[i] : i \in {j \in DOMAIN f :
                    f[j].id = id /\ \A h \in 1..(j - 1) : f[h].id /= id}}

\* board.columns.find(col => col.id === sourceColumnId)
\*      ?.cards.find(card => card.id === cardId)
CardToMove(b, cardId, sourceColumnId) ==
    UNION {Found(col.cards, cardId) : col \in Found(b.columns, sourceColumnId)}

\* set({ loading: true, error: null }) and the call of the API client.
CallStart(op, boardId) ==
    /\ Len(pending) < MaxCalls
    /\ state' = [state EXCEPT !.loading = TRUE, !.error = NoError]
    /\ pending' = Append(pending, [op |-> op, boardId |-> boardId,
                                    done |-> FALSE, result |-> NoValue])
    /\ UNCHANGED <<boards, columns, cards, now, calls, returned, last, limiter>>

\* CallEnd whose catch branch sets the error and leaves loading as it is.
CallEnd_KeepLoading(i, result) ==
    /\ i \in DOMAIN pending
    /\ ~pending[i].done
    /\ result \in ApiResults(pending[i].boardId)
    /\ state' = IF result.error /= NoError
                THEN [state EXCEPT !.error = result.error]
                ELSE [state EXCEPT !.board = result.data, !.loading = FALSE]
    /\ pending' = [pending EXCEPT ![i].done = TRUE, ![i].result = result]
    /\ UNCHANGED <<boards, columns, cards, now, calls, returned, last, limiter>>

\* The API call i has returned result: set({ board, loading: false }), or
\* in the catch set({ error, loading: false }).
CallEnd(i, result) ==
    /\ i \in DOMAIN pending
    /\ ~pending[i].done
    /\ result \in ApiResults(pending[i].boardId)
    /\ state' = IF result.error /= NoError
                THEN [state EXCEPT !.error = result.error, !.loading = FALSE]
                ELSE [state EXCEPT !.board = result.data, !.loading = FALSE]
    /\ pending' = [pending EXCEPT ![i].done = TRUE, ![i].result = result]
    /\ UNCHANGED <<boards, columns, cards, now, calls, returned, last, limiter>>

\* loadBoard(boardId) up to its await.
LoadBoard(boardId) == CallStart("loadBoard", boardId)

\* updateBoard(boardId, updates) up to its await.
StoreUpdateBoard(boardId) == CallStart("updateBoard", boardId)

\* set({ error: null }) and, on a loaded board, set({ board: { ...board,
\* columns } }) with the columns the action has computed.
SetColumns(cols) ==
    /\ state' = IF state.board = Null
                THEN [state EXCEPT !.error = NoError]
                ELSE [state EXCEPT !.error = NoError, !.board.columns = cols]
    /\ UNCHANGED <<boards, columns, cards, now, calls, returned, last,
                   limiter, pending>>

\* The columns moveCard computes.
MovedColumns(b, cardId, sourceColumnId, targetColumnId, targetOrder) ==
    [i \in DOMAIN b.columns |->
        LET column == b.columns[i]
            toMove == CardToMove(b, cardId, sourceColumnId)
        IN  IF column.id = sourceColumnId
            THEN [column EXCEPT !.cards = WithoutCard(column.cards, cardId)]
            ELSE IF column.id = targetColumnId /\ toMove /= {}
            THEN [column EXCEPT !.cards =
                    Splice(column.cards, targetOrder,
                           [(CHOOSE k \in toMove : TRUE)
                               EXCEPT !.order = targetOrder])]
            ELSE column]

\* moveCard(cardId, sourceColumnId, targetColumnId, targetOrder)
MoveCard(cardId, sourceColumnId, targetColumnId, targetOrder) ==
    SetColumns(IF state.board = Null THEN <<>>
               ELSE MovedColumns(state.board, cardId, sourceColumnId,
                                 targetColumnId, targetOrder))

\* The columns addCard computes; id stands for `card-${Date.now()}`.
AddedColumns(b, columnId, content, id) ==
    LET col == Found(b.columns, columnId)
        newCard == [id |-> id, content |-> content,
                    order |-> IF col = {} THEN 0
                              ELSE Len((CHOOSE c \in col : TRUE).cards)]
    IN  [i \in DOMAIN b.columns |->
            IF b.columns[i].id = columnId
            THEN [b.columns[i] EXCEPT !.cards = Append(@, newCard)]
            ELSE b.columns[i]]

\* Number of cards on the board b.
RECURSIVE CardCount(_)
CardCount(cols) ==
    IF cols = <<>> THEN 0 ELSE Len(Head(cols).cards) + CardCount(Tail(cols))

\* addCard(columnId, content = 'New card')
AddCard(columnId, content, id) ==
    /\ state.board /= Null => CardCount(state.board.columns) < MaxCards
    /\ SetColumns(IF state.board = Null THEN <<>>
                  ELSE AddedColumns(state.board, columnId, content, id))

\* editCard whose map has no test of the card id.
EditCard_AllCards(cardId, content) ==
    SetColumns(IF state.board = Null THEN <<>>
               ELSE [i \in DOMAIN state.board.columns |->
                      [state.board.columns[i] EXCEPT !.cards =
                          [m \in DOMAIN @ |->
                              [@[m] EXCEPT !.content = content]]]])

\* editCard(cardId, content)
EditCard(cardId, content) ==
    SetColumns(IF state.board = Null THEN <<>>
               ELSE [i \in DOMAIN state.board.columns |->
                      [state.board.columns[i] EXCEPT !.cards =
                          [m \in DOMAIN @ |->
                              IF @[m].id = cardId
                              THEN [@[m] EXCEPT !.content = content]
                              ELSE @[m]]]])

\* deleteCard(cardId)
DeleteCard(cardId) ==
    SetColumns(IF state.board = Null THEN <<>>
               ELSE [i \in DOMAIN state.board.columns |->
                      [state.board.columns[i] EXCEPT !.cards =
                          WithoutCard(@, cardId)]])

\* The service and its storage under createBoard, getBoardById and direct
\* card inserts, with updateBoard called as the title-only tests call it.
Next ==
    \/ Tick
    \/ \E data \in CreateTitles,
          boardId \in Nanoid(BoardIdSeq, {b.id : b \in boards}) :
          CreateBoardInsert(data, boardId)
    \/ \E c \in calls,
          columnId \in Nanoid(ColIdSeq, {col.id : col \in columns}) :
          CreateBoardColumn(c, columnId)
    \/ \E c \in calls : CreateBoardReturn(c)
    \/ \E id \in BoardIds : GetBoardById(id)
    \/ \E id \in BoardIds, data \in TitlePayloads : UpdateBoard(id, data)
    \/ \E id \in CardIds, content \in Contents, order \in Orders,
          columnId \in CardColIds : CreateCard(id, content, order, columnId)

Spec == Init /\ [][Next]_vars

\* The same service under the whole range of updateBoard payloads, on
\* boards created without a title within one tick of the clock, with a
\* single card id.
NextReplace ==
    \/ \E data \in {NoTitle},
          boardId \in Nanoid(BoardIdSeq, {b.id : b \in boards}) :
          CreateBoardInsert(data, boardId)
    \/ \E c \in calls,
          columnId \in Nanoid(ColIdSeq, {col.id : col \in columns}) :
          CreateBoardColumn(c, columnId)
    \/ \E c \in calls : CreateBoardReturn(c)
    \/ \E id \in BoardIds : GetBoardById(id)
    \/ \E id \in BoardIds, data \in Payloads : UpdateBoard(id, data)
    \/ \E id \in PayloadCardIds, content \in Contents, order \in Orders,
          columnId \in PayloadColIds : CreateCard(id, content, order, columnId)

SpecReplace == Init /\ [][NextReplace]_vars

\* The same service as the test suites drive it: one createBoard at a time,
\* while the tables are emptied by the cleanup of the tests; createBoard
\* gets titles up to 101 characters and updateBoard gets payloads with
\* fields out of range.
NextHarness ==
    \/ \E data \in LongCreateTitles,
          boardId \in Nanoid(BoardIdSeq, {b.id : b \in boards}) :
          calls = {} /\ CreateBoardInsert(data, boardId)
    \/ \E c \in calls,
          columnId \in Nanoid(ColIdSeq, {col.id : col \in columns}) :
          CreateBoardColumn(c, columnId)
    \/ \E c \in calls : CreateBoardReturn(c)
    \/ \E id \in BoardIds : GetBoardById(id)
    \/ \E id \in BoardIds, data \in InvalidPayloads : UpdateBoard(id, data)
    \/ \E id \in PayloadCardIds, content \in Contents, order \in Orders,
          columnId \in CardColIds : CreateCard(id, content, order, columnId)
    \/ DeleteManyCards
    \/ DeleteManyColumns
    \/ DeleteManyBoards

SpecHarness == Init /\ [][NextHarness]_vars

\* The routes in front of the service, in the app of index.ts or in the app
\* the route tests build, serving one client.
InitHttp ==
    /\ limiter \in {NoLimiter, FreshLimiter}
    /\ state = InitialState
    /\ pending = <<>>
    /\ boards = {} /\ columns = {} /\ cards = {}
    /\ now = 0
    /\ calls = {} /\ returned = {}
    /\ last = Pending

NextHttp ==
    \/ \E title \in PostTitles,
          boardId \in Nanoid(BoardIdSeq, {b.id : b \in boards}) :
          PostBoards(title, boardId)
    \/ \E c \in calls,
          columnId \in Nanoid(ColIdSeq, {col.id : col \in columns}) :
          CreateBoardColumn(c, columnId)
    \/ \E c \in calls : CreateBoardReturn(c)
    \/ \E id \in BoardIds : GetBoardById(id)
    \/ \E id \in BoardIds, body \in PutBodies : PutBoard(id, body)
    \/ WindowReset

SpecHttp == InitHttp /\ [][NextHttp]_vars

\* The client store loading and updating its board, the API client
\* answering each call with a board or with an error.
NextLoad ==
    \/ \E boardId \in BoardIds : LoadBoard(boardId)
    \/ \E boardId \in BoardIds : StoreUpdateBoard(boardId)
    \/ \E i \in DOMAIN pending :
          \E result \in ApiResults(pending[i].boardId) : CallEnd(i, result)

SpecLoad == Init /\ [][NextLoad]_vars

\* The client store under its card actions, from the states in which the
\* API calls leave it: no board or a board loaded, with or without an error.
InitStore ==
    /\ limiter = NoLimiter
    /\ state \in [board : StoreBoards \cup {Null}, loading : {FALSE},
                   error : {NoError, HttpError}]
    /\ pending = <<>>
    /\ boards = {} /\ columns = {} /\ cards = {}
    /\ now = 0
    /\ calls = {} /\ returned = {}
    /\ last = Pending

NextStore ==
    \/ \E cardId \in StoreCardIds \cup NewCardIds,
          sourceColumnId \in StoreColIds, targetColumnId \in StoreColIds,
          targetOrder \in Orders :
          MoveCard(cardId, sourceColumnId, targetColumnId, targetOrder)
    \/ \E columnId \in StoreColIds, content \in NewContents,
          id \in NewCardIds : AddCard(columnId, content, id)
    \/ \E cardId \in StoreCardIds \cup NewCardIds, content \in EditContents :
          EditCard(cardId, content)
    \/ \E cardId \in StoreCardIds \cup NewCardIds : DeleteCard(cardId)

SpecStore == InitStore /\ [][NextStore]_vars

\* ------------------------------------------------------------ properties
TypeOK ==
    /\ \A b \in boards : b.id \in BoardIds /\ b.createdAt \in 0..MaxClock
    /\ \A c \in columns : c.id \in ColIds /\ c.boardId \in BoardIds
    /\ \A k \in cards : k.id \in CardIds /\ k.columnId \in ColIds
    /\ now \in 0..MaxClock

\* The last call was getBoardById on the board that the createBoard call r
\* returned, and nothing was inserted under that board in between.
FetchedAfterCreate(r) ==
    /\ last.op = "getBoardById"
    /\ last.id = r.value.id
    /\ \A c \in ColumnsOf(r.value.id) : CardsOf(c.id) = {}

\* t is a board titled title with exactly the columns Todo, In Progress and
\* Done at orders 0, 1 and 2, in that sequence, each without cards.
IsFreshBoard(t, title) ==
    /\ t /= Null
    /\ t.title = title
    /\ Len(t.columns) = 3
    /\ t.columns[1].title = "Todo" /\ t.columns[1].order = 0
    /\ t.columns[2].title = "In Progress" /\ t.columns[2].order = 1
    /\ t.columns[3].title = "Done" /\ t.columns[3].order = 2
    /\ \A i \in 1..3 : t.columns[i].cards = <<>>

\* C1 as stated: for every title X, getBoardById on the id returned by
\* createBoard({title: X}) returns a board titled X with the three default
\* columns and no cards.
C1_RoundTripAnyTitle ==
    \A r \in returned :
        (r.data /= NoTitle /\ FetchedAfterCreate(r))
            => IsFreshBoard(last.value, r.data)

\* C1 amended: for every non-empty title X, getBoardById on the id returned
\* by createBoard({title: X}) returns a board titled X with exactly the
\* columns Todo, In Progress, Done at orders 0, 1, 2, each without cards.
C1_RoundTrip ==
    \A r \in returned :
        (r.data \notin {NoTitle, ""} /\ FetchedAfterCreate(r))
            => IsFreshBoard(last.value, r.data)

\* A board created with the title X has been fetched while another board's
\* column holds a card.
C1_Witness ==
    \E r \in returned :
        /\ r.data = "X"
        /\ FetchedAfterCreate(r)
        /\ cards /= {}

\* C10: getBoardById on an id that matches no board returns null as a value,
\* does not throw, and leaves storage as it was.
C10_NotFoundIsNull ==
    [][ (last'.op = "getBoardById" /\ ~HasBoard(last'.id))
            => /\ last'.status = "returned"
               /\ last'.value = Null
               /\ store' = store ]_vars

\* getBoardById has answered null for an id while another board is stored.
C10_Witness ==
    /\ last.op = "getBoardById"
    /\ ~HasBoard(last.id)
    /\ last.value = Null
    /\ boards /= {}


\* ------------------------------------------------- updateBoard properties
\* The step completes an updateBoard call.
UpdateCompleted == last' /= last /\ last'.op = "updateBoard"

\* Board id is stored and is one that a createBoard call has returned.
Settled(id) == HasBoard(id) /\ \E r \in returned : r.value.id = id

\* The outcomes the service is specified to signal.
BoardNotFound == "Board not found"
ValidationError == "ValidationError"

ColumnIdsIn(data) == {data.columns[i].id : i \in DOMAIN data.columns}

\* Two columns of the payload, or two cards of one of its columns, carry the
\* same order value.
DuplicateOrder(data) ==
    \/ \E i, j \in DOMAIN data.columns :
          i /= j /\ data.columns[i].order = data.columns[j].order
    \/ \E i \in DOMAIN data.columns :
          \E m, n \in DOMAIN data.columns[i].cards :
             m /= n /\ data.columns[i].cards[m].order
                         = data.columns[i].cards[n].order

\* A payload the replace has to accept: no order collision among siblings
\* and no column or card listed twice.
ValidPayload(data) ==
    /\ ~DuplicateOrder(data)
    /\ \A i, j \in DOMAIN data.columns :
          i /= j => data.columns[i].id /= data.columns[j].id
    /\ \A i, j \in DOMAIN data.columns :
          \A m \in DOMAIN data.columns[i].cards :
             \A n \in DOMAIN data.columns[j].cards :
                (i /= j \/ m /= n)
                   => data.columns[i].cards[m].id /= data.columns[j].cards[n].id

\* Storage holds, for the board of the last call, exactly the tree of its
\* payload.
StoredAsLast ==
    /\ HasBoard(last.id)
    /\ BoardRow(last.id).title = last.data.title
    /\ ColumnsOf(last.id) =
          { [id |-> last.data.columns[i].id, title |-> last.data.columns[i].title,
             order |-> last.data.columns[i].order, boardId |-> last.id] :
            i \in DOMAIN last.data.columns }
    /\ \A i \in DOMAIN last.data.columns :
          CardsOf(last.data.columns[i].id) =
            { [id |-> last.data.columns[i].cards[m].id,
               content |-> last.data.columns[i].cards[m].content,
               order |-> last.data.columns[i].cards[m].order,
               columnId |-> last.data.columns[i].id] :
              m \in DOMAIN last.data.columns[i].cards }

C3_UpdateStoresDesired ==
    [][ (UpdateCompleted /\ Settled(last'.id) /\ ValidPayload(last'.data))
            => (last'.status = "returned" /\ StoredAsLast') ]_vars

\* C4: updateBoard with a payload in which two sibling columns or two
\* sibling cards carry the same order is rejected with a ValidationError
\* and storage stays as it was.
C4_DuplicateOrderRejected ==
    [][ (UpdateCompleted /\ HasBoard(last'.id) /\ DuplicateOrder(last'.data))
            => /\ last'.status = "threw"
               /\ last'.error = ValidationError
               /\ store' = store ]_vars

\* C5: a stored column of the board that the payload of updateBoard omits
\* is gone after the call, together with every card it owned.
C5_OmittedColumnDeleted ==
    [][ (UpdateCompleted /\ Settled(last'.id) /\ ValidPayload(last'.data))
            => \A c \in ColumnsOf(last'.id) :
                  c.id \notin ColumnIdsIn(last'.data)
                     => (~HasColumn(c.id)' /\ CardsOf(c.id)' = {}) ]_vars

\* C6: a card stored in column A that the payload lists under another
\* stored column B of the same board, A being kept by the payload too, is,
\* after updateBoard, stored once, owned by B, at the order the payload
\* gives it.
C6_CardMovesToListedColumn ==
    [][ (UpdateCompleted /\ Settled(last'.id) /\ ValidPayload(last'.data))
            => \A k \in cards : \A j \in DOMAIN last'.data.columns :
                 \A m \in DOMAIN last'.data.columns[j].cards :
                  ( /\ \E a \in ColumnsOf(last'.id) : a.id = k.columnId
                    /\ k.columnId \in ColumnIdsIn(last'.data)
                    /\ \E b \in ColumnsOf(last'.id) :
                          b.id = last'.data.columns[j].id
                    /\ last'.data.columns[j].id /= k.columnId
                    /\ last'.data.columns[j].cards[m].id = k.id )
                  => /\ CardsOf(k.columnId)' \cap {x \in cards' : x.id = k.id} = {}
                     /\ {x \in cards' : x.id = k.id} =
                          {[id |-> k.id,
                            content |-> last'.data.columns[j].cards[m].content,
                            order |-> last'.data.columns[j].cards[m].order,
                            columnId |-> last'.data.columns[j].id]} ]_vars

\* C7: a column whose id is both stored under the board and listed in the
\* payload is, after updateBoard, the same row under the same id carrying
\* the title and order of the payload; likewise a card and its content,
\* order and owning column.
C7_SameIdUpdatedInPlace ==
    [][ (UpdateCompleted /\ Settled(last'.id) /\ ValidPayload(last'.data))
            => \A j \in DOMAIN last'.data.columns :
                 /\ (\E c \in ColumnsOf(last'.id) :
                        c.id = last'.data.columns[j].id)
                      => [id |-> last'.data.columns[j].id,
                          title |-> last'.data.columns[j].title,
                          order |-> last'.data.columns[j].order,
                          boardId |-> last'.id] \in columns'
                 /\ \A m \in DOMAIN last'.data.columns[j].cards :
                      (\E k \in cards : \E c \in ColumnsOf(last'.id) :
                          /\ k.columnId = c.id
                          /\ k.id = last'.data.columns[j].cards[m].id)
                      => [id |-> last'.data.columns[j].cards[m].id,
                          content |-> last'.data.columns[j].cards[m].content,
                          order |-> last'.data.columns[j].cards[m].order,
                          columnId |-> last'.data.columns[j].id] \in cards' ]_vars

C9_UnknownBoardNotFound ==
    [][ (UpdateCompleted /\ ~HasBoard(last'.id))
            => /\ last'.status = "threw"
               /\ last'.error = BoardNotFound
               /\ store' = store ]_vars

\* ------------------------------------------------------ read properties
\* The sequence f lists rows in non-decreasing order of their order value.
Ascending(f) == \A i, j \in DOMAIN f : i < j => f[i].order <= f[j].order

\* The sequence f lists exactly the rows of the set S, each once.
ListsExactly(f, S) ==
    /\ Len(f) = Cardinality(S)
    /\ {f[i].id : i \in DOMAIN f} = {x.id : x \in S}

\* C11: getBoardById returns all columns of the board in ascending order of
\* their order value and, within each column, all cards of that column in
\* ascending order of their order value, whatever the sequence in which the
\* rows were inserted.
C11_FetchedInOrder ==
    (last.op = "getBoardById" /\ last.value /= Null)
        => /\ ListsExactly(last.value.columns, ColumnsOf(last.id))
           /\ Ascending(last.value.columns)
           /\ \A i \in DOMAIN last.value.columns :
                 LET col == last.value.columns[i]
                 IN  /\ ListsExactly(col.cards, CardsOf(col.id))
                     /\ Ascending(col.cards)

\* getBoardById has returned a board with three columns, the first holding
\* card k2 at order 0 before card k1 at order 1.
C11_Witness ==
    /\ last.op = "getBoardById"
    /\ last.value /= Null
    /\ Len(last.value.columns) = 3
    /\ Len(last.value.columns[1].cards) = 2
    /\ last.value.columns[1].cards[1].id = "k2"
    /\ last.value.columns[1].cards[1].order = 0
    /\ last.value.columns[1].cards[2].order = 1

\* ---------------------------------------------------- create properties
\* C12: createBoard stores and returns the title 'My Kanban Board' when the
\* title is omitted or is the empty string, and stores and returns the
\* supplied title unchanged when it is non-empty.
C12_DefaultTitle ==
    \A r \in returned :
        LET expected == IF r.data = NoTitle \/ r.data = ""
                        THEN "My Kanban Board" ELSE r.data
        IN  /\ r.value.title = expected
            /\ HasBoard(r.value.id)
            /\ BoardRow(r.value.id).title = expected

\* createBoard({title: ""}) has returned, and the board was then fetched.
C12_Witness ==
    \E r \in returned :
        /\ r.data = ""
        /\ last.op = "getBoardById"
        /\ last.id = r.value.id
        /\ last.value /= Null

\* C13: createBoard with a title of more than 100 characters fails with a
\* ValidationError and stores no board and no column.
C13_LongTitleRejected ==
    [][ \A data \in LongCreateTitles, boardId \in BoardIds :
          (data /= NoTitle /\ Len(data) > 100
             /\ CreateBoardInsert(data, boardId))
            => /\ last'.op = "createBoard"
               /\ last'.status = "threw"
               /\ last'.error = ValidationError
               /\ store' = store ]_vars

\* Every field of the payload is within the limits of the data model:
\* board title 1 to 100 characters, column title 1 to 50, card content 1 to
\* 500, ids non-empty, orders integers from 0.
FieldsInRange(data) ==
    /\ Len(data.title) \in 1..100
    /\ \A i \in DOMAIN data.columns :
          LET col == data.columns[i]
          IN  /\ col.id /= ""
              /\ Len(col.title) \in 1..50
              /\ col.order \in Nat
              /\ \A m \in DOMAIN col.cards :
                    /\ col.cards[m].id /= ""
                    /\ Len(col.cards[m].content) \in 1..500
                    /\ col.cards[m].order \in Nat

\* C14: updateBoard on a created board fails with a ValidationError,
\* leaving storage unchanged, whenever a field of the payload is outside its
\* limits: the board title, a column title, a card content, an id or an
\* order value.
C14_OutOfRangeRejected ==
    [][ (UpdateCompleted /\ Settled(last'.id) /\ ~FieldsInRange(last'.data))
            => /\ last'.status = "threw"
               /\ last'.error = ValidationError
               /\ store' = store ]_vars

\* C15: after any sequence of createBoard, getBoardById and updateBoard
\* calls, successful or failed, the createdAt of a board is the one its
\* createBoard call returned, in storage and in what getBoardById returns.
C15_CreatedAtImmutable ==
    \A r \in returned :
        /\ HasBoard(r.value.id)
        /\ BoardRow(r.value.id).createdAt = r.value.createdAt
        /\ (last.op = "getBoardById" /\ last.id = r.value.id)
              => /\ last.value /= Null
                 /\ last.value.createdAt = r.value.createdAt

\* updateBoard has been called on a board after the clock moved on from the
\* time at which the board was created.
C15_Witness ==
    \E r \in returned :
        /\ r.value.createdAt < now
        /\ last.op = "updateBoard"
        /\ last.id = r.value.id

C18_CreateIsTransaction ==
    /\ \A b \in boards : Cardinality(ColumnsOf(b.id)) = 3
    /\ (last.op = "getBoardById" /\ last.value /= Null)
          => Len(last.value.columns) = 3

\* ---------------------------------------------------- storage properties
\* No two rows of the sequence f carry the same order value.
DistinctOrders(f) == \A i, j \in DOMAIN f : i /= j => f[i].order /= f[j].order

\* C19: in every tree getBoardById returns, no two columns share an order
\* value and no two cards of one column share an order value, after any
\* sequence of operations that write to storage.
C19_NoOrderTies ==
    (last.op = "getBoardById" /\ last.value /= Null /\ Settled(last.id))
        => /\ DistinctOrders(last.value.columns)
           /\ \A i \in DOMAIN last.value.columns :
                 DistinctOrders(last.value.columns[i].cards)

\* C20: every stored column references a stored board and every stored card
\* references a stored column; deleting boards removes their columns and the
\* cards of those, deleting columns removes their cards, so that no orphan
\* row ever exists.
C20_NoOrphans ==
    /\ \A c \in columns : HasBoard(c.boardId)
    /\ \A k \in cards : HasColumn(k.columnId)

\* board.deleteMany has removed a board together with its three columns and
\* a card, while the createBoard call of another board was in flight.
C20_Witness ==
    /\ last.op = "board.deleteMany"
    /\ last.value.count >= 1
    /\ last.value.cascaded >= 4
    /\ boards = {} /\ columns = {} /\ cards = {}
    /\ calls /= {}

C22_HttpOutcomes ==
    [][ LET e == last'
            notFound ==
                \/ e.op = "getBoardById" /\ ~HasBoard(e.id)
                \/ e.op = "PUT /api/boards/:id" /\ ~HasBoard(e.id)
            invalid ==
                \/ /\ e.op = "POST /api/boards"
                   /\ StatusCode(e) /= 429
                   /\ e.data.title = NonString
                \/ /\ e.op = "PUT /api/boards/:id"
                   /\ Settled(e.id)
                   /\ e.data = BadBody
        IN  last' /= last
              => /\ notFound => (StatusCode(e) = 404 /\ store' = store)
                 /\ invalid => (StatusCode(e) = 400 /\ store' = store) ]_vars

\* ------------------------------------------------------ frame properties
\* C23: a stored board, column or card is changed only by updateBoard on
\* its own board and removed only by an updateBoard whose payload leaves it
\* out; createBoard, getBoardById and every other step keep every row that
\* is stored as it is.
C23_LifecycleFrame ==
    [][ IF UpdateCompleted
        THEN /\ \A b \in boards \ boards' : b.id = last'.id
             /\ \A c \in columns \ columns' : c.boardId = last'.id
             /\ \A k \in cards \ cards' :
                   \E c \in columns : c.id = k.columnId /\ c.boardId = last'.id
             /\ \A c \in columns :
                   (c.boardId = last'.id /\ ~\E d \in columns' : d.id = c.id)
                      => c.id \notin ColumnIdsIn(last'.data)
        ELSE /\ boards \subseteq boards'
             /\ columns \subseteq columns'
             /\ cards \subseteq cards' ]_vars

\* While a created board holds a card, the createBoard call of another
\* board has inserted a column.
C23_Witness ==
    /\ \E c \in calls : c.k >= 1
    /\ \E r \in returned :
          /\ HasBoard(r.value.id)
          /\ \E c \in ColumnsOf(r.value.id) : CardsOf(c.id) /= {}

\* C24: when more than 100 requests to POST /api/boards arrive from the
\* client within one time window, at least one of them has been answered
\* with 429, and a request answered with 429 creates no board.
C24_RateLimited ==
    [][ /\ limiter'.count > 100 => limiter'.limited
        /\ (last' /= last /\ StatusCode(last') = 429) => store' = store ]_vars

\* ------------------------------------------------ client store properties
\* The ids of the cards on the board b, and whether column columnId of b
\* holds the card cardId.
CardIdsOn(b) ==
    UNION { {b.columns[i].cards[m].id : m \in DOMAIN b.columns[i].cards} :
            i \in DOMAIN b.columns }
InColumn(b, columnId, cardId) ==
    \E i \in DOMAIN b.columns :
        /\ b.columns[i].id = columnId
        /\ \E m \in DOMAIN b.columns[i].cards :
              b.columns[i].cards[m].id = cardId

\* C25: on a loaded board every moveCard(cardId, sourceColumnId,
\* targetColumnId, targetOrder), the same column as source and target
\* included, keeps the set of card ids of the board (no card lost, none
\* duplicated), and a card that is in the source column is in the target
\* column afterwards.
C25_MoveConservesCards ==
    [][ \A cardId \in StoreCardIds \cup NewCardIds,
           sourceColumnId \in StoreColIds, targetColumnId \in StoreColIds,
           targetOrder \in Orders :
          ( /\ state.board /= Null
            /\ MoveCard(cardId, sourceColumnId, targetColumnId, targetOrder) )
            => /\ CardIdsOn(state'.board) = CardIdsOn(state.board)
               /\ CardCount(state'.board.columns)
                     = CardCount(state.board.columns)
               /\ InColumn(state.board, sourceColumnId, cardId)
                     => InColumn(state'.board, targetColumnId, cardId) ]_vars

\* C26: from a loaded board whose cards have pairwise distinct orders within
\* each column, no sequence of addCard, deleteCard, editCard and moveCard
\* calls leaves a column with two cards of the same order.
C26_SiblingOrdersDistinct ==
    state.board /= Null =>
        \A i \in DOMAIN state.board.columns :
            LET cs == state.board.columns[i].cards
            IN  \A m \in DOMAIN cs, n \in DOMAIN cs :
                    m /= n => cs[m].order /= cs[n].order

\* C27: when loadBoard(A) is started and then loadBoard(B), and both
\* requests have completed with a board, the store's board is the result
\* for B, the board requested last, in whatever order the responses came.
C27_LatestLoadWins ==
    ( /\ Len(pending) = 2
      /\ \A i \in DOMAIN pending :
            /\ pending[i].op = "loadBoard"
            /\ pending[i].done
            /\ pending[i].result.error = NoError )
        => state.board = pending[2].result.data

\* C28: every loadBoard or updateBoard call sets loading to true and clears
\* error when it starts; when its API call returns it sets loading to false,
\* and on an error result it sets error to the message and leaves the board
\* held before unchanged; so with no call in flight loading is false.
C28_LoadingFlag ==
    /\ []((\A i \in DOMAIN pending : pending[i].done) => ~state.loading)
    /\ [][ /\ \A boardId \in BoardIds :
                (LoadBoard(boardId) \/ StoreUpdateBoard(boardId))
                    => state'.loading /\ state'.error = NoError
           /\ \A i \in DOMAIN pending :
                \A result \in ApiResults(pending[i].boardId) :
                    CallEnd(i, result)
                        => /\ ~state'.loading
                           /\ result.error /= NoError
                                => /\ state'.error = result.error
                                   /\ state'.board = state.board
                           /\ result.error = NoError
                                => state'.board = result.data ]_vars
\* An updateBoard call has failed while a board loaded before is held.
C28_Witness ==
    /\ Len(pending) = 2
    /\ pending[1].op = "loadBoard" /\ pending[1].done
    /\ pending[2].op = "updateBoard" /\ pending[2].done
    /\ pending[2].result.error = HttpError
    /\ state.board /= Null
    /\ state.error = HttpError
    /\ ~state.loading

\* C29: with no board loaded, moveCard, addCard, editCard and deleteCard
\* leave board null and change nothing but error, which they clear; on a
\* loaded board editCard(cardId, content) changes only the content of the
\* cards whose id is cardId: every card keeps its id, order and column and
\* every column its id, title and order.
C29_CardActionFrame ==
    [][ /\ state.board = Null
            => /\ state' = [state EXCEPT !.error = NoError]
               /\ UNCHANGED <<boards, columns, cards, pending>>
        /\ \A cardId \in StoreCardIds \cup NewCardIds,
              content \in EditContents :
              (state.board /= Null /\ EditCard(cardId, content))
                => LET old == state.board
                       new == state'.board
                   IN  /\ new /= Null
                       /\ new.id = old.id /\ new.title = old.title
                       /\ new.createdAt = old.createdAt
                       /\ DOMAIN new.columns = DOMAIN old.columns
                       /\ \A i \in DOMAIN old.columns :
                            LET oc == old.columns[i]
                                nc == new.columns[i]
                            IN  /\ nc.id = oc.id /\ nc.title = oc.title
                                /\ nc.order = oc.order
                                /\ DOMAIN nc.cards = DOMAIN oc.cards
                                /\ \A m \in DOMAIN oc.cards :
                                     /\ nc.cards[m].id = oc.cards[m].id
                                     /\ nc.cards[m].order = oc.cards[m].order
                                     /\ nc.cards[m].content =
                                          IF oc.cards[m].id = cardId
                                          THEN content
                                          ELSE oc.cards[m].content ]_vars
\* A loaded board on which one card of a column has been edited and its
\* sibling has not.
C29_Witness ==
    /\ state.board /= Null
    /\ \E i \in DOMAIN state.board.columns :
          LET cs == state.board.columns[i].cards
          IN  \E m \in DOMAIN cs, n \in DOMAIN cs :
                /\ cs[m].id = "k1" /\ cs[m].content \in EditContents
                /\ cs[n].id = "k2" /\ cs[n].content = "t"

\* C30: getBoardById(id) returns only columns whose boardId is id and only
\* cards owned by those columns, and a step of a createBoard call leaves
\* the tree getBoardById returns for every other stored board unchanged.
C30_BoardIsolation ==
    [][ /\ ( /\ last'.op = "getBoardById" /\ last'.status = "returned"
             /\ last'.value /= Null )
            => \A i \in DOMAIN last'.value.columns :
                 LET col == last'.value.columns[i]
                 IN  /\ \E c \in columns' :
                          c.id = col.id /\ c.boardId = last'.id
                     /\ \A m \in DOMAIN col.cards :
                          \E k \in cards' :
                              k.id = col.cards[m].id /\ k.columnId = col.id
        /\ (cards' = cards /\ (boards' /= boards \/ columns' /= columns))
            => \A id \in BoardIds :
                 ( /\ \E b \in boards : b.id = id
                   /\ \A b \in boards' \ boards : b.id /= id
                   /\ \A c \in columns' \ columns : c.boardId /= id )
                    => Trees(id)' = Trees(id) ]_vars
\* Two boards are stored with their columns, one of them holds a card, and
\* getBoardById has just returned one of the two.
C30_Witness ==
    /\ Cardinality(boards) = 2
    /\ \A b \in boards : \E c \in columns : c.boardId = b.id
    /\ cards /= {}
    /\ last.op = "getBoardById" /\ last.status = "returned"
    /\ last.value /= Null
    /\ last.value.columns /= <<>>

====
